---------------------------- MODULE Spec2Model ----------------------------
(***************************************************************************)
(* Model of the Hampel filter of src/src/lib.rs: Window<T, WINDOW_SIZE>    *)
(* with its operations new, update, get_median and extrapolation.          *)
(*                                                                         *)
(* The float type T is modelled by exact rationals <<n, d>> (d > 0, in     *)
(* lowest terms).  Inputs are drawn from small integers.  For those, every *)
(* f64 operation of the median path of update (differences, absolute       *)
(* values, the product coef * s0 and the comparisons) is exact, so the     *)
(* rational result is the f64 result.  The divisions of extrapolation are  *)
(* exact here, while f64 rounds a quotient that is not representable.      *)
(* Arrays are functions on 0 .. WINDOW_SIZE-1, as in the source.           *)
(***************************************************************************)
EXTENDS Integers, Sequences, FiniteSets, TLC

\* ------------------------------------------------------------------ bounds
\* Largest WINDOW_SIZE instantiated (sizes 1 and 2 are the rejected ones).
MaxN == 4
\* Samples and init_val are the integers -MaxVal .. MaxVal.
MaxVal == 1
\* n_sigma is one of 0 .. MaxSigma.
MaxSigma == 3
\* Number of update calls followed on one Window.
MaxCalls == 8
\* The worked examples use the samples 0 .. WideMax and one far-off sample Far,
\* and follow WideCalls update calls.
WideMax == 4
Far == 50
WideCalls == 5
\* The noise specification draws samples from the grid k / NoiseGrid, k in
\* -NoiseGrid .. NoiseGrid, of the interval [-1, 1]; the model holds k.
NoiseGrid == 2

Values == (-MaxVal) .. MaxVal
Sigmas == 0 .. MaxSigma
Sizes == 1 .. MaxN
NoiseValues == (-NoiseGrid) .. NoiseGrid
WideValues == (0 .. WideMax) \cup {Far}
\* The window sizes of the worked examples (one even, one odd).
WideSizes == {4, 5}
\* The arguments of new in the crate's example: Window::<f64, 5>::new(0.0, 3.0)
DocInit == 0
DocSigma == 3

\* ------------------------------------------------ the float type T (exact)
Abs(n) == IF n < 0 THEN -n ELSE n

RECURSIVE GCD(_, _)
GCD(a, b) == IF b = 0 THEN a ELSE GCD(b, a % b)

\* The rational n/d, d # 0, in lowest terms with a positive denominator.
Rat(n, d) ==
    LET g == GCD(Abs(n), Abs(d))
        s == IF d < 0 THEN -1 ELSE 1
    IN  << (s * n) \div g, (s * d) \div g >>

\* cast::<usize, T>(k)
FromInt(k) == << k, 1 >>
RAdd(a, b) == Rat(a[1] * b[2] + b[1] * a[2], a[2] * b[2])
RSub(a, b) == Rat(a[1] * b[2] - b[1] * a[2], a[2] * b[2])
RMul(a, b) == Rat(a[1] * b[1], a[2] * b[2])
RDiv(a, b) == Rat(a[1] * b[2], a[2] * b[1])
RAbs(a) == << Abs(a[1]), a[2] >>
RLe(a, b) == a[1] * b[2] <= b[1] * a[2]
RGt(a, b) == a[1] * b[2] > b[1] * a[2]

\* cast::<f32, T>(1.4826): the f32 nearest to 1.4826 is 6218475 / 2^22.
F32_1_4826_Num == 6218475
F32_1_4826_Den == 4194304
F32_1_4826 == Rat(F32_1_4826_Num, F32_1_4826_Den)
\* cast::<f32, T>(0.5)
F32_0_5 == Rat(1, 2)

\* ------------------------------------------------------------------- state
VARIABLES
    WINDOW_SIZE,     \* the const generic parameter of Window
    extrapolation,   \* whether the crate is built with feature "extrapolation"
    pc,              \* "start": before new; "ready": a Window exists;
                     \* "aborted": new panicked
    window,          \* Window::window
    working_array,   \* Window::working_array
    oldest,          \* Window::oldest
    coef,            \* Window::coef
    x_in,            \* the argument of the last update call
    ret,             \* the value the last update call returned
    sorted_window,   \* working_array as the first get_median of the last
                     \* update left it
    w0,              \* the local w0 of the last update (median of the window)
    s0,              \* the local s0 of the last update (median deviation)
    recent,          \* the last WINDOW_SIZE values given to the Window, oldest
                     \* first: init_val WINDOW_SIZE times, then each update's x
    n_sigma_in,      \* the n_sigma argument of new
    calls,           \* number of update calls so far
    writes           \* writes[i]: number of update calls that wrote slot i

vars == << WINDOW_SIZE, extrapolation, pc, window, working_array, oldest, coef,
           x_in, ret, sorted_window, w0, s0, recent, n_sigma_in, calls, writes >>

Idx == 0 .. (WINDOW_SIZE - 1)
None == << >>

\* ------------------------------------------------------------- get_median
\* slice::swap
Swap(a, i, j) == [a EXCEPT ![i] = a[j], ![j] = a[i]]

\* The while loop stopping one short: index 0 is never compared.
RECURSIVE InnerLoop_SkipFirst(_, _)
InnerLoop_SkipFirst(a, j) ==
    IF j > 1 /\ RGt(a[j - 1], a[j])
        THEN InnerLoop_SkipFirst(Swap(a, j - 1, j), j - 1)
        ELSE a

\* The while loop of get_median: element j sinks while its left neighbour is
\* greater.
RECURSIVE InnerLoop(_, _)
InnerLoop(a, j) ==
    IF j > 0 /\ RGt(a[j - 1], a[j])
        THEN InnerLoop(Swap(a, j - 1, j), j - 1)
        ELSE a

\* The for loop of get_median, from index i on.
RECURSIVE InsertionSort(_, _)
InsertionSort(a, i) ==
    IF i < WINDOW_SIZE THEN InsertionSort(InnerLoop(a, i), i + 1) ELSE a

\* The lower-middle index for even sizes.
MedianIndex_LowerMiddle == (WINDOW_SIZE - 1) \div 2

\* The index get_median reads after sorting.
MedianIndex == WINDOW_SIZE \div 2

\* get_median sorts working_array in place: working_array after the call.
SortedArray(a) == InsertionSort(a, 1)

\* The value get_median returns, read from the sorted working_array.
get_median(a) == a[MedianIndex]

\* ---------------------------------------------------------- extrapolation
\* window[(oldest + i) % WINDOW_SIZE]
Chrono(w, o, i) == w[(o + i) % WINDOW_SIZE]

RECURSIVE SumY(_, _, _)
SumY(w, o, i) ==
    IF i < 0 THEN FromInt(0) ELSE RAdd(SumY(w, o, i - 1), Chrono(w, o, i))

mu_x == RMul(FromInt(WINDOW_SIZE - 2), F32_0_5)
mu_y(w, o) == RDiv(SumY(w, o, WINDOW_SIZE - 2), FromInt(WINDOW_SIZE - 1))
dev_x(i) == RSub(FromInt(i), mu_x)
dev_y(w, o, i) == RSub(Chrono(w, o, i), mu_y(w, o))

RECURSIVE Numer(_, _, _)
Numer(w, o, i) ==
    IF i < 0 THEN FromInt(0)
    ELSE RAdd(Numer(w, o, i - 1), RMul(dev_x(i), dev_y(w, o, i)))

RECURSIVE Denom(_)
Denom(i) ==
    IF i < 0 THEN FromInt(0) ELSE RAdd(Denom(i - 1), RMul(dev_x(i), dev_x(i)))

\* The regression line evaluated at the last prior sample, not one step ahead.
Extrapolate_AtLastPoint(w, o) ==
    LET a == RDiv(Numer(w, o, WINDOW_SIZE - 2), Denom(WINDOW_SIZE - 2))
        b == RSub(mu_y(w, o), RMul(a, mu_x))
    IN  RAdd(RMul(a, FromInt(WINDOW_SIZE - 2)), b)

\* extrapolation(&self), self.window = w, self.oldest = o.
Extrapolate(w, o) ==
    LET a == RDiv(Numer(w, o, WINDOW_SIZE - 2), Denom(WINDOW_SIZE - 2))
        b == RSub(mu_y(w, o), RMul(a, mu_x))
    IN  RAdd(RMul(a, FromInt(WINDOW_SIZE - 1)), b)

\* ------------------------------------------------------------------- new
\* The assertion off by one: size 2 accepted.
SizeAccepted_AtLeastTwo == WINDOW_SIZE >= 2

\* The value of the assert!(WINDOW_SIZE >= 3) of new.
SizeAccepted == WINDOW_SIZE >= 3

\* coef without the n_sigma factor.
CoefOf_NoSigma(n_sigma) == F32_1_4826

\* The coef field new computes.
CoefOf(n_sigma) == RMul(F32_1_4826, n_sigma)

\* The window filled with zeros, not with init_val.
InitialWindow_Zeroed(init_val) == [i \in Idx |-> FromInt(0)]

\* The window field new builds: [init_val; WINDOW_SIZE].
InitialWindow(init_val) == [i \in Idx |-> init_val]

\* working_array is left uninitialised by new: its contents are whatever the
\* memory held, here any constant array or any ramp over the sample values.
Uninit ==
    {[i \in Idx |-> FromInt(g)] : g \in Values}
        \cup {[i \in Idx |-> FromInt(g - i)] : g \in Values}

New(init_val, n_sigma) ==
    /\ pc = "start"
    /\ IF SizeAccepted
         THEN /\ pc' = "ready"
              /\ window' = InitialWindow(init_val)
              /\ working_array' \in Uninit
              /\ oldest' = 0
              /\ coef' = CoefOf(n_sigma)
              /\ recent' = [i \in 1 .. WINDOW_SIZE |-> init_val]
              /\ writes' = [i \in Idx |-> 0]
         ELSE /\ pc' = "aborted"
              /\ UNCHANGED << window, working_array, oldest, coef, recent,
                              writes >>
    /\ n_sigma_in' = n_sigma
    /\ UNCHANGED << WINDOW_SIZE, extrapolation, x_in, ret, sorted_window,
                    w0, s0, calls >>

\* ----------------------------------------------------------------- update
\* The write done after oldest has advanced.
WriteSlot_AfterAdvance == (oldest + 1) % WINDOW_SIZE

\* The slot update writes x to.
WriteSlot == oldest
\* oldest wrapping one slot early.
NextOldest_WrapsEarly == (oldest + 1) % (WINDOW_SIZE - 1)

\* The new value of oldest.
NextOldest == (oldest + 1) % WINDOW_SIZE

\* The test against s0 alone, coef forgotten.
IsInlier_NoCoef(x, m, s) == RLe(RAbs(RSub(x, m)), s)

\* The test on the signed difference, abs forgotten.
IsInlier_NoAbs(x, m, s) == RLe(RSub(x, m), RMul(coef, s))

\* The outlier test of update: TRUE when x is passed through.
IsInlier(x, m, s) == RLe(RAbs(RSub(x, m)), RMul(coef, s))

\* What update returns for an outlier.
Substitute(w, o, m) == IF extrapolation THEN Extrapolate(w, o) ELSE m

\* The for loop of update over working_array: absolute differences to w0.
Deviations(a, m) == [i \in Idx |-> RAbs(RSub(a[i], m))]

Update(x) ==
    /\ pc = "ready"
    /\ calls < MaxCalls
    /\ window' = [window EXCEPT ![WriteSlot] = x]
    /\ oldest' = NextOldest
    /\ sorted_window' = SortedArray(window')
    /\ w0' = get_median(sorted_window')
    /\ working_array' = SortedArray(Deviations(sorted_window', w0'))
    /\ s0' = get_median(working_array')
    /\ ret' = IF IsInlier(x, w0', s0')
                THEN x
                ELSE Substitute(window', oldest', w0')
    /\ x_in' = x
    /\ recent' = Tail(recent) \o << x >>
    /\ calls' = calls + 1
    /\ writes' = [writes EXCEPT ![WriteSlot] = @ + 1]
    /\ UNCHANGED << WINDOW_SIZE, extrapolation, pc, coef, n_sigma_in >>

\* ---------------------------------------------------------- specification
\* Before new: the build fixes WINDOW_SIZE (one of sizes) and the feature.
InitWith(sizes) ==
    /\ WINDOW_SIZE \in sizes
    /\ extrapolation \in BOOLEAN
    /\ pc = "start"
    /\ window = None
    /\ working_array = None
    /\ oldest = 0
    /\ coef = FromInt(0)
    /\ x_in = None
    /\ ret = None
    /\ sorted_window = None
    /\ w0 = None
    /\ s0 = None
    /\ recent = None
    /\ n_sigma_in = None
    /\ calls = 0
    /\ writes = None

Init == InitWith(Sizes)

Construct == \E v \in Values, s \in Sigmas : New(FromInt(v), FromInt(s))
Feed == \E x \in Values : Update(FromInt(x))

Next == Construct \/ Feed

Spec == Init /\ [][Next]_vars

\* The worked examples: sizes 4 and 5, new(0.0, 0.0) or new(0.0, 3.0), samples
\* 0 .. WideMax and Far.
InitWide == InitWith(WideSizes)

ConstructWide == \E s \in {0, DocSigma} : New(FromInt(DocInit), FromInt(s))
FeedWide == calls < WideCalls /\ \E x \in WideValues : Update(FromInt(x))

NextWide == ConstructWide \/ FeedWide

SpecWide == InitWide /\ [][NextWide]_vars

\* Samples on a grid of [-1, 1] (in units of 1 / NoiseGrid), n_sigma = 3.
ConstructNoise == \E v \in NoiseValues : New(FromInt(v), FromInt(DocSigma))
FeedNoise == \E x \in NoiseValues : Update(FromInt(x))

NextNoise == ConstructNoise \/ FeedNoise

SpecNoise == Init /\ [][NextNoise]_vars

\* ------------------------------------------------- vocabulary of the claims
\* A Window exists and update has been called on it.
Called == pc = "ready" /\ calls > 0

RLt(a, b) == a[1] * b[2] < b[1] * a[2]

\* v is the element at index k of the ascending arrangement of a: fewer than
\* k + 1 elements are below v, and at least k + 1 are at most v.
IsOrderStatistic(a, k, v) ==
    /\ \E i \in Idx : a[i] = v
    /\ Cardinality({i \in Idx : RLt(a[i], v)}) <= k
    /\ Cardinality({i \in Idx : RLe(a[i], v)}) > k

\* The element at index N/2 of the ascending-sorted array a.
MedianOf(a) ==
    CHOOSE v \in {a[i] : i \in Idx} : IsOrderStatistic(a, WINDOW_SIZE \div 2, v)

\* The element at index N/2 of the ascending-sorted |a[i] - MedianOf(a)|.
MadOf(a) ==
    LET m == MedianOf(a)
    IN  MedianOf([i \in Idx |-> RAbs(RSub(a[i], m))])

\* The slot holding the most recent sample.
Newest == (oldest + WINDOW_SIZE - 1) % WINDOW_SIZE

Ascending(a) == \A i \in Idx : i > 0 => RLe(a[i - 1], a[i])

\* a and b hold the same values the same number of times.
SameElements(a, b) ==
    \A v \in {a[i] : i \in Idx} \cup {b[i] : i \in Idx} :
        Cardinality({i \in Idx : a[i] = v}) = Cardinality({i \in Idx : b[i] = v})

\* ------------------------------------------------------------------ claims
\* C1: in median-substitution mode update(x) returns x when
\* |x - w0| <= threshold_coefficient * s0 and w0 otherwise, w0 being the
\* element at index N/2 of the sorted window (x written) and s0 the element at
\* index N/2 of the sorted absolute deviations from w0.
C1_MedianModeResult ==
    (Called /\ ~extrapolation) =>
        LET m == MedianOf(window)
            s == MadOf(window)
        IN  ret = IF RLe(RAbs(RSub(x_in, m)), RMul(coef, s)) THEN x_in ELSE m

\* An outlier was replaced by the median of a window with a non-zero MAD.
C1_Witness ==
    /\ Called
    /\ ~extrapolation
    /\ ret # x_in
    /\ ret = MedianOf(window)
    /\ MadOf(window) # FromInt(0)

\* C3: in median-substitution mode, when the other N-1 samples all equal one
\* value v and x differs from v, update(x) returns v.
C3_ZeroVarianceFlagsAnyDeviation ==
    (Called /\ ~extrapolation) =>
        \A j \in Idx :
            (j # Newest /\ window[j] # x_in
                /\ \A i \in Idx : i # Newest => window[i] = window[j])
            => ret = window[j]

\* update(x) on a window whose other samples are all v # x returned v.
C3_Witness ==
    /\ Called
    /\ ~extrapolation
    /\ coef # FromInt(0)
    /\ \A i \in Idx : i # Newest => window[i] # x_in /\ window[i] = ret

\* C8: get_median leaves working_array an ascending permutation of its input
\* and returns the element at index N/2: the upper-middle one for even N.
C8_SortedAndUpperMedian ==
    Called =>
        /\ Ascending(sorted_window)
        /\ SameElements(sorted_window, window)
        /\ w0 = sorted_window[WINDOW_SIZE \div 2]
        /\ Ascending(working_array)
        /\ SameElements(working_array,
                        [i \in Idx |-> RAbs(RSub(window[i], w0))])
        /\ s0 = working_array[WINDOW_SIZE \div 2]
        /\ (WINDOW_SIZE = 4
              /\ {window[i] : i \in Idx} = {FromInt(v) : v \in 1 .. 4})
           => w0 = FromInt(3)

\* The values 1, 2, 3, 4 were sorted from an unsorted window of size 4.
C8_Witness ==
    /\ Called
    /\ WINDOW_SIZE = 4
    /\ {window[i] : i \in Idx} = {FromInt(v) : v \in 1 .. 4}
    /\ window # sorted_window
    /\ w0 = FromInt(3)

\* C2 as stated: with n_sigma = 3 and the window and x in [-1, 1], update(x)
\* returns x.
C2_AlwaysPassThrough == Called => ret = x_in

\* C2, amended: with n_sigma = 3 and the window and x in [-1, 1], update(x)
\* returns x whenever 3 * 1.4826 * s0 is at least 2, the width of the interval
\* (s0 the median absolute deviation of the window with x written).
C2_PassThroughGivenSpread ==
    (Called /\ RLe(FromInt(2 * NoiseGrid),
                   RMul(RMul(F32_1_4826, FromInt(DocSigma)), MadOf(window))))
        => ret = x_in

\* A sample away from the median passed through a window of sufficient spread.
C2_Witness ==
    /\ Called
    /\ RLe(FromInt(2 * NoiseGrid), RMul(coef, MadOf(window)))
    /\ RAbs(RSub(x_in, MedianOf(window))) = FromInt(2 * NoiseGrid - 1)
    /\ ret = x_in

\* C4: when the N values last given to the Window (init_val at construction,
\* then the inputs) all equal v, update(v) returns v and leaves the window
\* holding N copies of v.
C4_ConstantInput ==
    [][(pc = "ready" /\ calls' = calls + 1
            /\ \A i \in 1 .. WINDOW_SIZE : recent[i] = x_in')
        => (ret' = x_in' /\ \A i \in Idx : window'[i] = x_in')]_vars

\* The second update(v) on a Window built by new(v, n_sigma) returned v.
C4_Witness ==
    /\ Called
    /\ calls = 2
    /\ coef # FromInt(0)
    /\ \A i \in 1 .. WINDOW_SIZE : recent[i] = x_in
    /\ \A i \in Idx : window[i] = x_in
    /\ ret = x_in

\* C6: from a fresh Window each update advances oldest by 1 modulo N inside
\* [0, N); during the first N calls every slot is written exactly once, and
\* after exactly N calls oldest is 0 again.
C6_OldestRoundTrip ==
    pc = "ready" =>
        /\ oldest \in Idx
        /\ oldest = calls % WINDOW_SIZE
        /\ calls <= WINDOW_SIZE =>
              \A i \in Idx : writes[i] = IF i < calls THEN 1 ELSE 0
        /\ calls = WINDOW_SIZE => oldest = 0

\* Exactly N calls were made: every slot written once, oldest back at 0.
C6_Witness ==
    /\ pc = "ready"
    /\ calls = WINDOW_SIZE
    /\ oldest = 0
    /\ \A i \in Idx : writes[i] = 1

\* floor(n * 10^k / d) and the remainder, by long division.
RECURSIVE LongDiv(_, _, _)
LongDiv(n, d, k) ==
    IF k = 0 THEN [q |-> n \div d, r |-> n % d]
    ELSE LET p == LongDiv(n, d, k - 1)
         IN  [q |-> p.q * 10 + (p.r * 10) \div d, r |-> (p.r * 10) % d]

\* r rounded to four decimals, times 10^4.
Round4(r) == (LongDiv(r[1], r[2], 5).q + 5) \div 10

\* C7: new with N < 3 aborts and yields no Window; with N >= 3 it yields a
\* Window with all samples init_val, oldest = 0 and coef = 1.4826 * n_sigma.
C7_Construction ==
    pc # "start" =>
        IF WINDOW_SIZE < 3
        THEN pc = "aborted" /\ window = None /\ calls = 0
        ELSE /\ pc = "ready"
             /\ DOMAIN window = Idx
             /\ coef = RMul(F32_1_4826, n_sigma_in)
             /\ Round4(F32_1_4826) = 14826
             /\ calls = 0 => /\ oldest = 0
                             /\ \A i \in Idx : window[i] = recent[1]

\* new was called with N = 2 and aborted.
C7_Witness == pc = "aborted" /\ WINDOW_SIZE = 2 /\ window = None

\* C9: the buffer read from oldest on holds the last N values given to the
\* Window (init_val, then the raw inputs), oldest first, the latest input at
\* (oldest + N - 1) mod N; an update changes only the slot at the previous
\* oldest and oldest itself, not coef nor the other slots.
C9_RingHoldsRecentInputs ==
    /\ [](pc = "ready" =>
            /\ \A i \in Idx : window[(oldest + i) % WINDOW_SIZE] = recent[i + 1]
            /\ calls > 0 => window[Newest] = x_in)
    /\ [][calls' = calls + 1 =>
            /\ coef' = coef
            /\ oldest' = (oldest + 1) % WINDOW_SIZE
            /\ \A i \in Idx : i # oldest => window'[i] = window[i]]_vars

\* An input classified as an outlier is stored as given.
C9_Witness ==
    /\ Called
    /\ calls > WINDOW_SIZE
    /\ ret # x_in
    /\ window[Newest] = x_in
    /\ recent[WINDOW_SIZE] = x_in

\* Number of trailing update calls that were given the value of the last one
\* (counted within the last N calls).
RECURSIVE RunFrom(_)
RunFrom(k) ==
    IF k < WINDOW_SIZE /\ k < calls /\ recent[WINDOW_SIZE - k] = x_in
        THEN RunFrom(k + 1)
        ELSE k
TrailingRun == RunFrom(0)

\* C10: once the same value v has been fed in floor(N/2) + 1 consecutive
\* update calls, that call and every following update(v) returns v, in both
\* replacement modes.
C10_RecoveryAfterHalfWindow ==
    (Called /\ TrailingRun >= WINDOW_SIZE \div 2 + 1) => ret = x_in

\* The (floor(N/2) + 1)-th consecutive v returned v while the rest of the
\* window still held other values.
C10_Witness ==
    /\ Called
    /\ calls > WINDOW_SIZE
    /\ TrailingRun = WINDOW_SIZE \div 2 + 1
    /\ \A i \in 1 .. (WINDOW_SIZE - TrailingRun) : recent[i] # x_in
    /\ ret = x_in

\* With only floor(N/2) consecutive copies of v the median-mode output is
\* still an older value.
C10_OlderValueBefore ==
    /\ Called
    /\ ~extrapolation
    /\ TrailingRun = WINDOW_SIZE \div 2
    /\ ret # x_in
    /\ \E i \in 1 .. (WINDOW_SIZE - TrailingRun) : recent[i] = ret

\* The N-1 samples before the last input form an arithmetic sequence.
PriorsArithmetic ==
    \A i \in 2 .. (WINDOW_SIZE - 1) :
        RSub(recent[i], recent[i - 1]) = RSub(recent[2], recent[1])

\* C5: in extrapolation mode, when x is classified an outlier and the N-1
\* samples before it are c + d*i (i = 0 .. N-2), update returns c + d*(N-1),
\* whatever x is; for N = 5 and the samples 0, 1, 2, 3 that is 4.
C5_ExtrapolatesArithmeticSequence ==
    (Called /\ extrapolation /\ PriorsArithmetic
        /\ ~RLe(RAbs(RSub(x_in, MedianOf(window))), RMul(coef, MadOf(window))))
    => /\ ret = RAdd(recent[1],
                     RMul(FromInt(WINDOW_SIZE - 1), RSub(recent[2], recent[1])))
       /\ (WINDOW_SIZE = 5 /\ SubSeq(recent, 1, 4)
                = << FromInt(0), FromInt(1), FromInt(2), FromInt(3) >>)
          => ret = FromInt(4)

\* 0, 1, 2, 3 and then the far-off sample, with n_sigma = 3: 4 is returned.
C5_Witness ==
    /\ Called
    /\ extrapolation
    /\ WINDOW_SIZE = 5
    /\ coef # FromInt(0)
    /\ recent = << FromInt(0), FromInt(1), FromInt(2), FromInt(3), FromInt(Far) >>
    /\ ret = FromInt(4)

=============================================================================
